---- MODULE Spec2Model ----
(***************************************************************************)
(* Model of student_loan_payoff.py: the Prefect flow "Loan Payoff          *)
(* Reminder", its tasks, and the spreadsheet / SMS collaborators.          *)
(*                                                                         *)
(* Cell texts are sequences of one-character strings, so that the          *)
(* currency parsing (.replace + float) and the string comparison used by   *)
(* sorted() are computed, not assumed.  Ledger amounts are whole-dollar    *)
(* texts, for which Python float arithmetic and round(x, 2) are exact, so  *)
(* amounts are integers here.                                              *)
(***************************************************************************)
EXTENDS Integers, Sequences, FiniteSets, TLC

\* ------------------------------------------------------------------ bounds
MaxLoans == 2
MaxBudget == 6

\* ------------------------------------------------------------ input texts
LoanIds == {"A", "B"}
OriginalText == <<"$", "9">>
CurrentTexts == {<<"$", "0">>, <<"$", "2">>, <<"$", "3">>}
RateTexts == {<<"1", "0", "%">>, <<"6", "%">>}
MinTexts == {<<"$", "1">>}
TotalTexts == {<<"$", "1", ",", "0", "0", "0">>}
HeaderRow == <<"loan", "original", "current", "rate", "min">>

LedgerRows == LoanIds \X {OriginalText} \X CurrentTexts \X RateTexts \X MinTexts

Ledgers == UNION {[1..n -> LedgerRows] : n \in 0..MaxLoans}

\* ------------------------------------------------------- Python primitives
\* ord() of the characters that occur in cell texts
Ord == ("$" :> 36) @@ ("%" :> 37) @@ ("," :> 44) @@ ("." :> 46) @@
       ("0" :> 48) @@ ("1" :> 49) @@ ("2" :> 50) @@ ("3" :> 51) @@
       ("4" :> 52) @@ ("5" :> 53) @@ ("6" :> 54) @@ ("7" :> 55) @@
       ("8" :> 56) @@ ("9" :> 57)

\* str.replace(ch, ""): drop every occurrence of the character ch
RECURSIVE Replace(_, _)
Replace(text, ch) ==
    IF text = <<>> THEN <<>>
    ELSE IF Head(text) = ch THEN Replace(Tail(text), ch)
         ELSE <<Head(text)>> \o Replace(Tail(text), ch)

\* float() of a string of decimal digits
RECURSIVE Float(_)
Float(text) ==
    IF text = <<>> THEN 0
    ELSE 10 * Float(SubSeq(text, 1, Len(text) - 1)) + (Ord[text[Len(text)]] - 48)

\* float(val.replace("$", "").replace(",", ""))
ParseCurrency(text) == Float(Replace(Replace(text, "$"), ","))

\* Python's str < str: lexicographic on code points, a proper prefix is less
RECURSIVE StrLess(_, _)
StrLess(a, b) ==
    IF b = <<>> THEN FALSE
    ELSE IF a = <<>> THEN TRUE
    ELSE IF Ord[Head(a)] # Ord[Head(b)] THEN Ord[Head(a)] < Ord[Head(b)]
    ELSE StrLess(Tail(a), Tail(b))

\* sorted(seq, key=..., reverse=True), where lt is the set of the pairs
\* <<i, j>> of positions with key(seq[i]) < key(seq[j]): descending, and
\* elements with equal keys keep their input order.
SortedReverse(seq, lt) ==
    LET n == Len(seq)
        pos(i) == 1 + Cardinality({j \in 1..n : <<i, j>> \in lt})
                    + Cardinality({j \in 1..(i - 1) :
                                     /\ <<i, j>> \notin lt
                                     /\ <<j, i>> \notin lt})
    IN [p \in 1..n |-> seq[CHOOSE i \in 1..n : pos(i) = p]]

\* sum of the values of a dict with integer values
RECURSIVE SumValues(_)
SumValues(d) ==
    IF DOMAIN d = {} THEN 0
    ELSE LET k == CHOOSE x \in DOMAIN d : TRUE
         IN d[k] + SumValues([x \in DOMAIN d \ {k} |-> d[x]])

EmptyDict == [x \in {} |-> 0]


\* ------------------------------------------------------------------- state
VARIABLES
    store,              \* the spreadsheet: sheet A1:E14, cells B20 and B21
    budget,             \* Parameter("budget")
    done,               \* tasks of the flow that have finished
    get_sheet,          \* result of GetSheet
    sorted_rows,        \* result of OrderLoansOnInterestRate
    heap,               \* dict objects, by address (index)
    row_dict,           \* result of CreateDictFromRows: an address, 0 = none
    calc_total_after_min_payments,
    tpc,                \* position inside TargetLoans.run
    current_budget,     \* TargetLoans.run local
    payments,           \* TargetLoans.run local dict loan_id -> amount
    idx,                \* position of the for loop in the loan sequence
    passPaid,           \* history: amount each position got in this pass
    targeted_loans,     \* result of TargetLoans
    total_payments,     \* result of CalcTotalPaymentsForMonth: an address
    payment_list,       \* result of MakeSortedPaymentList
    current_total,      \* result of GetCurrentTotal
    last_month_total,   \* result of GetLastMonthTotal
    update_request,     \* result of UpdateLastMonthTotal
    calls,              \* requests executed against the collaborators
    sent                \* messages delivered by the notifier

vars == <<store, budget, done, get_sheet, sorted_rows, heap, row_dict,
          calc_total_after_min_payments, tpc, current_budget, payments, idx,
          passPaid, targeted_loans, total_payments, payment_list,
          current_total, last_month_total, update_request, calls, sent>>

allocVars == <<tpc, current_budget, payments, idx, passPaid, targeted_loans>>
sheetVars == <<get_sheet, sorted_rows, heap, row_dict,
               calc_total_after_min_payments>>
planVars == <<total_payments, payment_list>>
totalVars == <<current_total, last_month_total, update_request>>

\* ------------------------------------------------------ the flow's edges
\* upstream tasks of every task, from the bindings in the `with Flow` block
Upstream ==
    [CreateAuthDict |-> {},
     Authenticate |-> {"CreateAuthDict"},
     GetSheet |-> {"Authenticate"},
     OrderLoansOnInterestRate |-> {"GetSheet"},
     CreateDictFromRows |-> {"GetSheet"},
     CalcTotalAfterMinPayments |-> {"CreateDictFromRows"},
     TargetLoans |-> {"OrderLoansOnInterestRate", "CalcTotalAfterMinPayments"},
     CalcTotalPaymentsForMonth |-> {"CreateDictFromRows", "TargetLoans"},
     MakeSortedPaymentList |-> {"CalcTotalPaymentsForMonth"},
     GetCurrentTotal |-> {"Authenticate"},
     GetLastMonthTotal |-> {"Authenticate"},
     UpdateLastMonthTotal |-> {"Authenticate", "GetLastMonthTotal",
                               "GetCurrentTotal"},
     SendMessage |-> {"MakeSortedPaymentList", "GetCurrentTotal",
                      "GetLastMonthTotal"}]

Tasks == DOMAIN Upstream

\* A task may run when its upstream tasks have finished, it has not run yet
\* and no other task is in the middle of its run (tasks run one at a time).
Ready(task) ==
    /\ task \notin done
    /\ Upstream[task] \subseteq done
    /\ tpc = "idle"

Finish(task) == done' = done \cup {task}

\* ---------------------------------------------------------- pure task bodies
\* the inner dict CreateDictFromRows builds for one row
LoanFields(row) ==
    [original_total |-> row[2], current_total |-> row[3],
     interest_rate |-> row[4], min_payment |-> row[5]]

\* CreateDictFromRows.run: a dict in insertion order; a repeated key keeps
\* its first position and takes the later row's fields
RECURSIVE LoanDict(_)
LoanDict(rows) ==
    IF rows = <<>> THEN [keys |-> <<>>, val |-> EmptyDict]
    ELSE LET prev == LoanDict(SubSeq(rows, 1, Len(rows) - 1))
             row == rows[Len(rows)]
         IN [keys |-> IF row[1] \in DOMAIN prev.val THEN prev.keys
                      ELSE Append(prev.keys, row[1]),
             val |-> [k \in DOMAIN prev.val \cup {row[1]} |->
                        IF k = row[1] THEN LoanFields(row) ELSE prev.val[k]]]

\* itemgetter(3) of two rows compared as Python compares two str
RateKeyLess(rows) ==
    {ij \in (1..Len(rows)) \X (1..Len(rows)) :
        StrLess(rows[ij[1]][4], rows[ij[2]][4])}

\* OrderLoansOnInterestRate.run
OrderLoans(rows) == SortedReverse(rows, RateKeyLess(rows))

\* CalcTotalAfterMinPayments.run; round(x, 2) leaves a whole number as it is
RemainingAfterMin(loans, b) ==
    b - SumValues([k \in DOMAIN loans.val |->
                     ParseCurrency(loans.val[k].min_payment)])

\* a slip in the column index: the balance read from the min_payment column
OutstandingWrongColumn(loan) == ParseCurrency(loan[5])

\* TargetLoans.run, line 92
Outstanding(loan) == ParseCurrency(loan[3])

\* a slip that drops the budget test: the loan is always paid in full
AmountIgnoresBudget(outstanding, cur) == outstanding

\* a slip that drops the balance test: the whole budget goes to the loan
AmountIgnoresBalance(outstanding, cur) == cur

\* TargetLoans.run, lines 94-98
Amount(outstanding, cur) ==
    IF cur - outstanding >= 0 THEN outstanding ELSE cur

\* itemgetter("payment") of two entries compared as numbers
PaymentLess(plist) ==
    {ij \in (1..Len(plist)) \X (1..Len(plist)) :
        plist[ij[1]]["payment"] < plist[ij[2]]["payment"]}

\* SendMessage.run: the balance trend phrase and its amount
Trend(cur, last) ==
    IF cur < last THEN [phrase |-> "down", amount |-> last - cur]
    ELSE IF cur = last THEN [phrase |-> "same", amount |-> 0]
    ELSE [phrase |-> "up", amount |-> cur - last]

\* SendMessage.run: one line per entry whose payment is not 0
RECURSIVE MessageLines(_)
MessageLines(plist) ==
    IF plist = <<>> THEN <<>>
    ELSE IF Head(plist)["payment"] = 0 THEN MessageLines(Tail(plist))
    ELSE <<[loan_id |-> Head(plist)["loan_id"],
            amount |-> Head(plist)["payment"]]>> \o MessageLines(Tail(plist))

\* -------------------------------------------------------------------- Init
Init ==
    /\ store \in [sheet : {<<HeaderRow>> \o l : l \in Ledgers},
                  B20 : {<<"$", "9", "0", "0">>},
                  B21 : TotalTexts]
    /\ budget \in 0..MaxBudget
    /\ done = {}
    /\ get_sheet = <<>>
    /\ sorted_rows = <<>>
    /\ heap = <<>>
    /\ row_dict = 0
    /\ calc_total_after_min_payments = 0
    /\ tpc = "idle"
    /\ current_budget = 0
    /\ payments = EmptyDict
    /\ idx = 0
    /\ passPaid = <<>>
    /\ targeted_loans = EmptyDict
    /\ total_payments = 0
    /\ payment_list = <<>>
    /\ current_total = <<>>
    /\ last_month_total = <<>>
    /\ update_request = <<>>
    /\ calls = [read_loans |-> 0, read_current |-> 0, read_last |-> 0,
                write_last |-> 0, send |-> 0]
    /\ sent = <<>>

\* ------------------------------------------------------------------- tasks
CreateAuthDict ==
    /\ Ready("CreateAuthDict")
    /\ Finish("CreateAuthDict")
    /\ UNCHANGED <<store, budget, sheetVars, allocVars, planVars, totalVars,
                   calls, sent>>

Authenticate ==
    /\ Ready("Authenticate")
    /\ Finish("Authenticate")
    /\ UNCHANGED <<store, budget, sheetVars, allocVars, planVars, totalVars,
                   calls, sent>>

\* reads A1:E14 and drops the header row
GetSheet ==
    /\ Ready("GetSheet")
    /\ get_sheet' = Tail(store.sheet)
    /\ calls' = [calls EXCEPT !.read_loans = @ + 1]
    /\ Finish("GetSheet")
    /\ UNCHANGED <<store, budget, sorted_rows, heap, row_dict,
                   calc_total_after_min_payments, allocVars, planVars,
                   totalVars, sent>>

OrderLoansOnInterestRate ==
    /\ Ready("OrderLoansOnInterestRate")
    /\ sorted_rows' = OrderLoans(get_sheet)
    /\ Finish("OrderLoansOnInterestRate")
    /\ UNCHANGED <<store, budget, get_sheet, heap, row_dict,
                   calc_total_after_min_payments, allocVars, planVars,
                   totalVars, calls, sent>>

\* allocates the dict and returns its address
CreateDictFromRows ==
    /\ Ready("CreateDictFromRows")
    /\ heap' = Append(heap, LoanDict(get_sheet))
    /\ row_dict' = Len(heap) + 1
    /\ Finish("CreateDictFromRows")
    /\ UNCHANGED <<store, budget, get_sheet, sorted_rows,
                   calc_total_after_min_payments, allocVars, planVars,
                   totalVars, calls, sent>>

CalcTotalAfterMinPayments ==
    /\ Ready("CalcTotalAfterMinPayments")
    /\ calc_total_after_min_payments' = RemainingAfterMin(heap[row_dict], budget)
    /\ Finish("CalcTotalAfterMinPayments")
    /\ UNCHANGED <<store, budget, get_sheet, sorted_rows, heap, row_dict,
                   allocVars, planVars, totalVars, calls, sent>>

\* TargetLoans.run, lines 87-88: the locals
TargetLoansBegin ==
    /\ Ready("TargetLoans")
    /\ current_budget' = calc_total_after_min_payments
    /\ payments' = EmptyDict
    /\ tpc' = "while"
    /\ UNCHANGED <<store, budget, done, sheetVars, idx, passPaid,
                   targeted_loans, planVars, totalVars, calls, sent>>

\* TargetLoans.run, line 90 and line 104: the while test, or the return
TargetLoansWhile ==
    /\ tpc = "while"
    /\ IF current_budget > 0
       THEN /\ tpc' = "for"
            /\ idx' = 1
            /\ passPaid' = <<>>
            /\ UNCHANGED <<done, targeted_loans>>
       ELSE /\ tpc' = "idle"
            /\ targeted_loans' = payments
            /\ Finish("TargetLoans")
            /\ UNCHANGED <<idx, passPaid>>
    /\ UNCHANGED <<store, budget, sheetVars, current_budget, payments,
                   planVars, totalVars, calls, sent>>

\* TargetLoans.run, lines 91-102: one iteration of the for loop, or its end
TargetLoansFor ==
    /\ tpc = "for"
    /\ IF idx > Len(sorted_rows)
       THEN /\ tpc' = "while"
            /\ UNCHANGED <<current_budget, payments, idx, passPaid>>
       ELSE LET loan == sorted_rows[idx]
                outstanding == Outstanding(loan)
                amount == Amount(outstanding, current_budget)
                pays == outstanding > 0 /\ amount > 0
            IN /\ payments' =
                     IF pays
                     THEN [k \in DOMAIN payments \cup {loan[1]} |->
                             IF k = loan[1] THEN amount ELSE payments[k]]
                     ELSE payments
               /\ current_budget' =
                     IF pays THEN current_budget - amount ELSE current_budget
               /\ passPaid' = Append(passPaid, IF pays THEN amount ELSE 0)
               /\ idx' = idx + 1
               /\ tpc' = "for"
    /\ UNCHANGED <<store, budget, done, sheetVars, targeted_loans, planVars,
                   totalVars, calls, sent>>

\* total_payments is min_loans itself: the "payment" field is stored into the
\* inner dicts of that object, and its address is what the task returns
CalcTotalPaymentsForMonth ==
    /\ Ready("CalcTotalPaymentsForMonth")
    /\ LET min_loans == heap[row_dict]
           pay(loan) == ParseCurrency(min_loans.val[loan].min_payment)
                        + (IF loan \in DOMAIN targeted_loans
                           THEN targeted_loans[loan] ELSE 0)
       IN heap' = [heap EXCEPT ![row_dict].val =
                     [loan \in DOMAIN min_loans.val |->
                        min_loans.val[loan] @@ ("payment" :> pay(loan))]]
    /\ total_payments' = row_dict
    /\ Finish("CalcTotalPaymentsForMonth")
    /\ UNCHANGED <<store, budget, get_sheet, sorted_rows, row_dict,
                   calc_total_after_min_payments, allocVars, payment_list,
                   totalVars, calls, sent>>

\* payment_temp is the inner dict itself: "loan_id" is stored into it
MakeSortedPaymentList ==
    /\ Ready("MakeSortedPaymentList")
    /\ LET d == heap[total_payments]
           tagged == [loan \in DOMAIN d.val |->
                        d.val[loan] @@ ("loan_id" :> loan)]
           plist == [i \in 1..Len(d.keys) |-> tagged[d.keys[i]]]
       IN /\ heap' = [heap EXCEPT ![total_payments].val = tagged]
          /\ payment_list' = SortedReverse(plist, PaymentLess(plist))
    /\ Finish("MakeSortedPaymentList")
    /\ UNCHANGED <<store, budget, get_sheet, sorted_rows, row_dict,
                   calc_total_after_min_payments, allocVars, total_payments,
                   totalVars, calls, sent>>

GetCurrentTotal ==
    /\ Ready("GetCurrentTotal")
    /\ current_total' = store.B20
    /\ calls' = [calls EXCEPT !.read_current = @ + 1]
    /\ Finish("GetCurrentTotal")
    /\ UNCHANGED <<store, budget, sheetVars, allocVars, planVars,
                   last_month_total, update_request, sent>>

GetLastMonthTotal ==
    /\ Ready("GetLastMonthTotal")
    /\ last_month_total' = store.B21
    /\ calls' = [calls EXCEPT !.read_last = @ + 1]
    /\ Finish("GetLastMonthTotal")
    /\ UNCHANGED <<store, budget, sheetVars, allocVars, planVars,
                   current_total, update_request, sent>>

\* builds the update request for B21 and returns it; .execute() is not
\* called on it, so no request reaches the store
UpdateLastMonthTotal ==
    /\ Ready("UpdateLastMonthTotal")
    /\ update_request' = <<[range |-> "B21:B21",
                            values |-> <<<<current_total>>>>]>>
    /\ Finish("UpdateLastMonthTotal")
    /\ UNCHANGED <<store, budget, sheetVars, allocVars, planVars,
                   current_total, last_month_total, calls, sent>>

SendMessage ==
    /\ Ready("SendMessage")
    /\ LET cur == ParseCurrency(current_total)
           last == ParseCurrency(last_month_total)
       IN sent' = Append(sent, [current |-> cur,
                                trend |-> Trend(cur, last),
                                lines |-> MessageLines(payment_list)])
    /\ calls' = [calls EXCEPT !.send = @ + 1]
    /\ Finish("SendMessage")
    /\ UNCHANGED <<store, budget, sheetVars, allocVars, planVars, totalVars>>

Next ==
    \/ CreateAuthDict
    \/ Authenticate
    \/ GetSheet
    \/ OrderLoansOnInterestRate
    \/ CreateDictFromRows
    \/ CalcTotalAfterMinPayments
    \/ TargetLoansBegin
    \/ TargetLoansWhile
    \/ TargetLoansFor
    \/ CalcTotalPaymentsForMonth
    \/ MakeSortedPaymentList
    \/ GetCurrentTotal
    \/ GetLastMonthTotal
    \/ UpdateLastMonthTotal
    \/ SendMessage

Spec == Init /\ [][Next]_vars

\* the executor runs every task that is ready, and a running task proceeds
FairSpec == Spec /\ WF_vars(Next)

TypeOK ==
    /\ done \subseteq Tasks
    /\ tpc \in {"idle", "while", "for"}
    /\ row_dict \in 0..Len(heap)

\* ------------------------------------------------- vocabulary of the claims
\* a loan row's balance as a number
CurrentTotal(row) == ParseCurrency(row[3])

\* an interest rate text such as "10%" as a number
RateValue(text) == Float(Replace(text, "%"))
RateNumLess(rows) ==
    {ij \in (1..Len(rows)) \X (1..Len(rows)) :
        RateValue(rows[ij[1]][4]) < RateValue(rows[ij[2]][4])}

\* the ledger rows of the store
Ledger == Tail(store.sheet)

UniqueIds(rows) ==
    \A i, j \in 1..Len(rows) : rows[i][1] = rows[j][1] => i = j

\* sum of min_payment over the loan records of row_dict
SumMin ==
    SumValues([k \in DOMAIN heap[row_dict].val |->
                 ParseCurrency(heap[row_dict].val[k].min_payment)])

\* sum of the positive balances of the ranked rows
TotalDebt == SumValues([i \in 1..Len(sorted_rows) |-> CurrentTotal(sorted_rows[i])])

Min2(a, b) == IF a <= b THEN a ELSE b

\* ------------------------------------------------------------------ claims
\* C1 (as stated): once TargetLoans has returned, the sum of the loans'
\* min_payment plus the sum of the extras in the returned map is at most the
\* budget, for every budget.
C1_NeverOverspends ==
    "TargetLoans" \in done => SumMin + SumValues(targeted_loans) <= budget

\* C1 (amended): once TargetLoans has returned, if the budget covers the
\* minimum payments then minimums plus extras stay within the budget, and
\* if it does not then the returned map is empty.
C1_WithinBudgetWhenCovered ==
    "TargetLoans" \in done =>
        /\ budget >= SumMin => SumMin + SumValues(targeted_loans) <= budget
        /\ budget < SumMin => targeted_loans = EmptyDict

C1_Witness ==
    /\ "TargetLoans" \in done
    /\ SumMin > 0
    /\ budget > SumMin
    /\ DOMAIN targeted_loans # {}

\* C2: whenever TargetLoans.run has been entered it eventually returns.
C2_Terminates == (tpc # "idle") ~> ("TargetLoans" \in done)

\* C3: within one pass over the ranked sequence, a loan at a later position
\* gets money only if every loan before it has a zero balance or got its
\* full balance in that pass.
C3_HigherRankExhaustedFirst ==
    \A j \in 1..Len(passPaid) : \A i \in 1..(j - 1) :
        passPaid[j] > 0 =>
            \/ CurrentTotal(sorted_rows[i]) = 0
            \/ passPaid[i] = CurrentTotal(sorted_rows[i])

C3_Witness ==
    /\ tpc = "for"
    /\ Len(passPaid) >= 2
    /\ passPaid[2] > 0
    /\ passPaid[1] > 0
    /\ passPaid[2] < CurrentTotal(sorted_rows[2])

\* C4: the ranked rows are the ledger rows in descending order of the
\* interest rate read as a number, rows of equal rate in ledger order.
C4_NumericRateOrder ==
    "OrderLoansOnInterestRate" \in done =>
        sorted_rows = SortedReverse(get_sheet, RateNumLess(get_sheet))

\* C5: the collaborator calls happen once each and in the order read
\* ledger, compute plan, read last-period total, write new total, send.
C5_FixedOrder ==
    /\ \A c \in DOMAIN calls : calls[c] <= 1
    /\ "MakeSortedPaymentList" \in done => calls.read_loans = 1
    /\ calls.read_last = 1 => "MakeSortedPaymentList" \in done
    /\ calls.write_last = 1 => calls.read_last = 1
    /\ calls.send = 1 => calls.write_last = 1
    /\ done = Tasks => \A c \in {"read_loans", "read_last", "write_last", "send"} :
                          calls[c] = 1

\* C6: after a run in which every task finished, the last-period cell of
\* the store holds the current total read during the run.
C6_TotalPersisted ==
    done = Tasks => store.B21 = current_total

\* C7: with two ledger rows of the same loan_id the allocator never runs,
\* no plan is produced and nothing is sent.
C7_DuplicateAborts ==
    ~UniqueIds(Ledger) =>
        /\ tpc = "idle"
        /\ "TargetLoans" \notin done
        /\ "CalcTotalPaymentsForMonth" \notin done
        /\ sent = <<>>

\* C8: after CalcTotalPaymentsForMonth the loan mapping row_dict is as
\* CreateDictFromRows built it, and the result is another object.
C8_SourceRecordsUnchanged ==
    "CalcTotalPaymentsForMonth" \in done =>
        /\ heap[row_dict] = LoanDict(get_sheet)
        /\ total_payments # row_dict

\* C9: in every state of the allocator, and in the returned map, every
\* recorded extra is positive and at most the balance of a ranked row of
\* that loan_id; so a loan whose balance is 0 is never recorded.
C9_ExtraWithinBalance ==
    \A m \in {payments, targeted_loans} : \A id \in DOMAIN m :
        /\ m[id] > 0
        /\ \E i \in 1..Len(sorted_rows) :
              /\ sorted_rows[i][1] = id
              /\ CurrentTotal(sorted_rows[i]) > 0
              /\ m[id] <= CurrentTotal(sorted_rows[i])

C9_Witness ==
    /\ tpc = "for"
    /\ \E i \in 1..Len(sorted_rows) : CurrentTotal(sorted_rows[i]) = 0
    /\ \E id \in DOMAIN payments :
          \A i \in 1..Len(sorted_rows) :
              sorted_rows[i][1] = id => payments[id] < CurrentTotal(sorted_rows[i])

\* C10: when TargetLoans returns for a discretionary budget D > 0, the
\* extras of the returned map add up to min(D, total of the balances).
C10_AllSpentIsRecorded ==
    ( /\ "TargetLoans" \in done
      /\ UniqueIds(sorted_rows)
      /\ calc_total_after_min_payments > 0 )
    => SumValues(targeted_loans) =
          Min2(calc_total_after_min_payments, TotalDebt)

====
